---- MODULE Spec2Model ----
(***************************************************************************)
(* Model of src/app.py, the Streamlit dashboard "Dashboard Interativo de   *)
(* Situações".  The script is re-executed from top to bottom on every user *)
(* interaction (upload, removal of the file, filter selection); one        *)
(* re-execution is one action of the model.  The variables named after     *)
(* script variables hold what the script assigned during the last pass,    *)
(* the others hold what that pass put on the page.                         *)
(*                                                                         *)
(* A cell text is a sequence of one-character strings, so that str(),      *)
(* strip(), fillna() and replace() are computed, not assumed.  @st.cache_data *)
(* memoises load_data on the uploaded file; load_data is a function of the *)
(* file alone, so the memo is not part of the state.                       *)
(***************************************************************************)
EXTENDS Integers, Sequences, FiniteSets, TLC

VARIABLES
    uploaded_file,        \* value of st.sidebar.file_uploader
    filtro,               \* value of the selectbox (its default before it is drawn)
    etapa,                \* where the last pass of the script ended
    df,                   \* result of load_data in the last pass
    mensagens,            \* st.info / st.warning / st.error shown by the last pass
    erro_colunas,         \* column names listed by the "Colunas faltantes" error
    colunas_disponiveis,  \* listing "Colunas Disponíveis" shown with that error
    totais,               \* dict totais
    metricas,             \* the four st.metric of "Métricas Principais"
    fig,                  \* slices of the donut chart, <<>> when no chart is drawn
    expanders,            \* per category, the items listed in its expander
    estatisticas,         \* Total / Com Motivo / Sem Motivo of the revocation expander
    df_filtrado,          \* script variable df_filtrado
    tabela,               \* what st.dataframe shows under "Tabela Completa de Dados"
    dados_exportar,       \* sheet "Dados Filtrados" of the download
    metricas_df,          \* sheet "Métricas" of the download
    falhou                \* history: an earlier pass of the session ended in an error

vars == <<uploaded_file, filtro, etapa, df, mensagens, erro_colunas,
          colunas_disponiveis, totais, metricas, fig, expanders, estatisticas,
          df_filtrado, tabela, dados_exportar, metricas_df, falhou>>

-----------------------------------------------------------------------------
(* Bounds of the explored inputs *)

MaxRows == 2
MaxCells == 2
MaxSessionRows == 1
MaxSessionCells == 1

-----------------------------------------------------------------------------
(* Cell values *)

\* A missing cell (float NaN left by pandas for an empty cell); not a text.
NaN == <<"float:nan">>

nan_txt  == <<"n", "a", "n">>
None_txt == <<"N", "o", "n", "e">>

Whitespace == {" ", "\t"}

\* str(x) of the lambdas: the text itself, "nan" for a missing cell.
str(x) == IF x = NaN THEN nan_txt ELSE x

RECURSIVE lstrip(_)
lstrip(s) ==
    IF s = <<>> THEN s
    ELSE IF Head(s) \in Whitespace THEN lstrip(Tail(s)) ELSE s

RECURSIVE rstrip(_)
rstrip(s) ==
    IF s = <<>> THEN s
    ELSE IF s[Len(s)] \in Whitespace THEN rstrip(SubSeq(s, 1, Len(s) - 1)) ELSE s

strip(s) == rstrip(lstrip(s))

\* variant without .strip(): the test a padded blank cell would pass
nao_vazia_sem_strip(x) == str(x) \notin {<<>>, nan_txt, None_txt}

\* lambda x: str(x).strip() not in ["", "nan", "None"]
nao_vazia(x) == strip(str(x)) \notin {<<>>, nan_txt, None_txt}

\* .fillna("")
fillna(x) == IF x = NaN THEN <<>> ELSE x

\* .replace("nan", ""): whole-cell match
replace_nan(x) == IF x = nan_txt THEN <<>> ELSE x

-----------------------------------------------------------------------------
(* Data frames: [columns |-> sequence of names, rows |-> sequence of       *)
(* functions from the column names to cells]                               *)

Range(s) == {s[i] : i \in DOMAIN s}

Max(a, b) == IF a >= b THEN a ELSE b

Indefinido == [indefinido |-> TRUE]   \* a script variable never assigned / nothing drawn
None == [none |-> TRUE]               \* load_data's return value on failure

\* df[col]
Coluna(d, col) == [i \in 1..Len(d.rows) |-> d.rows[i][col]]

\* df[cols]
Projecao(d, cols) ==
    [columns |-> cols,
     rows |-> [i \in 1..Len(d.rows) |-> [c \in Range(cols) |-> d.rows[i][c]]]]

\* df[df[col].apply(lambda ...)]
LinhasPreenchidas(d, col) ==
    [columns |-> d.columns,
     rows |-> SelectSeq(d.rows, LAMBDA r : nao_vazia(r[col]))]

-----------------------------------------------------------------------------
(* The script, top to bottom *)

\* variant: a memo that answers with the table of the previous pass whatever
\* file it is asked for
load_data_em_cache(file) ==
    IF df # Indefinido /\ df # None THEN df
    ELSE IF file.legivel THEN file.tabela ELSE None

\* pd.read_csv / pd.read_excel: the table of the file, or an exception
Exception == [exception |-> TRUE]

read_csv(file) == IF file.legivel THEN file.tabela ELSE Exception

read_excel(file) == IF file.legivel THEN file.tabela ELSE Exception

EndsWithCsv(nome) == nome \in {"planilha.csv"}

load_data(file) ==
    LET lido == IF EndsWithCsv(file.nome) THEN read_csv(file) ELSE read_excel(file)
    IN  IF lido = Exception THEN None ELSE lido

colunas_necessarias ==
    <<"ENCONTRADAS", "NÃO ENCONTRADAS", "REVOGADAS", "MOTIVO DA REVOGAÇÃO",
      "ATUALIZADAS", "OUTRAS SITUAÇÕES">>

\* variant: only the first missing column is reported
ColunasFaltantes_primeira(d) ==
    LET todas == SelectSeq(colunas_necessarias, LAMBDA col : col \notin Range(d.columns))
    IN  IF todas = <<>> THEN <<>> ELSE <<Head(todas)>>

ColunasFaltantes(d) ==
    SelectSeq(colunas_necessarias, LAMBDA col : col \notin Range(d.columns))

\* variant: missing cells shown as a dash, .fillna("-")
DfExibicao_traco(d) ==
    [columns |-> d.columns,
     rows |-> [i \in 1..Len(d.rows) |->
                 [c \in DOMAIN d.rows[i] |->
                     IF d.rows[i][c] = NaN THEN <<"-">> ELSE replace_nan(d.rows[i][c])]]]

DfExibicao(d) ==
    [columns |-> d.columns,
     rows |-> [i \in 1..Len(d.rows) |->
                 [c \in DOMAIN d.rows[i] |-> replace_nan(fillna(d.rows[i][c]))]]]

count_filled(series) == Len(SelectSeq(series, nao_vazia))

\* keys of totais, in insertion order
ChavesTotais == SelectSeq(colunas_necessarias, LAMBDA col : col # "MOTIVO DA REVOGAÇÃO")

CalcTotais(d) == [col \in Range(ChavesTotais) |-> count_filled(Coluna(d, col))]

OpcoesFiltro ==
    <<"Todos", "ENCONTRADAS", "NÃO ENCONTRADAS", "REVOGADAS", "ATUALIZADAS",
      "OUTRAS SITUAÇÕES">>

ColunasGrafico(f) ==
    IF f = "Todos" THEN SelectSeq(colunas_necessarias, LAMBDA col : col # "MOTIVO DA REVOGAÇÃO")
    ELSE IF f = "REVOGADAS" THEN <<"REVOGADAS">>
    ELSE <<f>>

ColunasTabela(f, dex) ==
    IF f = "Todos" THEN dex.columns
    ELSE IF f = "REVOGADAS" THEN <<"REVOGADAS", "MOTIVO DA REVOGAÇÃO">>
    ELSE <<f>>

RECURSIVE SomaValores(_, _)
SomaValores(t, chaves) ==
    IF chaves = <<>> THEN 0 ELSE t[Head(chaves)] + SomaValores(t, Tail(chaves))

\* totais.get(f, 0)
TotaisGet(t, f) == IF f \in DOMAIN t THEN t[f] ELSE 0

\* variant: under Todos, the number of categories that have records
TotalGeral_categorias(t, f) ==
    IF f = "Todos" THEN Cardinality({c \in DOMAIN t : t[c] > 0}) ELSE TotaisGet(t, f)

TotalGeral(t, f) == IF f = "Todos" THEN SomaValores(t, ChavesTotais) ELSE TotaisGet(t, f)

MetricasPrincipais(d, t, f) ==
    [total_filtrado |-> TotalGeral(t, f),
     categoria |-> IF f = "Todos" THEN <<"Categorias", Len(ColunasGrafico(f))>>
                   ELSE <<"Categoria Selecionada", f>>,
     registros |-> Len(d.rows),
     colunas_com_dados |->
        Cardinality({j \in 1..Len(d.columns) : count_filled(Coluna(d, d.columns[j])) > 0})]

-----------------------------------------------------------------------------
(* Donut chart, lines 122-162: the slices drawn and the message shown      *)

\* variant: a slice for every category, zero or not
DadosGrafico_todas(t) ==
    [k \in 1..Len(ChavesTotais) |->
        [Categoria |-> ChavesTotais[k], Quantidade |-> t[ChavesTotais[k]]]]

DadosGrafico(t) ==
    LET fatia(c) == [Categoria |-> c, Quantidade |-> t[c]]
        nao_zero == SelectSeq(ChavesTotais, LAMBDA c : t[c] > 0)
    IN  [k \in 1..Len(nao_zero) |-> fatia(nao_zero[k])]

\* variant: the second slice is the number of rows, the count not subtracted
Grafico_sem_subtrair(d, t, f) ==
    IF TotalGeral(t, f) > 0
    THEN IF f = "Todos"
         THEN IF DadosGrafico(t) # <<>>
              THEN [fig |-> DadosGrafico(t), msg |-> {}]
              ELSE [fig |-> <<>>, msg |-> {"warning: Não há dados para exibir no gráfico."}]
         ELSE LET quantidade == TotaisGet(t, f)
              IN  IF quantidade > 0
                  THEN [fig |-> <<[Categoria |-> f, Quantidade |-> quantidade],
                                  [Categoria |-> "Outros",
                                   Quantidade |-> Max(0, Len(d.rows))]>>,
                        msg |-> {}]
                  ELSE [fig |-> <<>>, msg |-> {"info: Não há registros na categoria"}]
    ELSE [fig |-> <<>>, msg |-> {"warning: Não há dados para exibir com os filtros atuais."}]

Grafico(d, t, f) ==
    IF TotalGeral(t, f) > 0
    THEN IF f = "Todos"
         THEN IF DadosGrafico(t) # <<>>
              THEN [fig |-> DadosGrafico(t), msg |-> {}]
              ELSE [fig |-> <<>>, msg |-> {"warning: Não há dados para exibir no gráfico."}]
         ELSE LET quantidade == TotaisGet(t, f)
              IN  IF quantidade > 0
                  THEN [fig |-> <<[Categoria |-> f, Quantidade |-> quantidade],
                                  [Categoria |-> "Outros",
                                   Quantidade |-> Max(0, Len(d.rows) - quantidade)]>>,
                        msg |-> {}]
                  ELSE [fig |-> <<>>, msg |-> {"info: Não há registros na categoria"}]
    ELSE [fig |-> <<>>, msg |-> {"warning: Não há dados para exibir com os filtros atuais."}]

-----------------------------------------------------------------------------
(* Expanders, lines 164-352 *)

MotivoNaoInformado == "*Motivo não informado*"

\* one listed revocation: the REVOGADAS cell, the reason shown, the border colour
ItemRevogada(row) ==
    LET motivo == row["MOTIVO DA REVOGAÇÃO"]
    IN  IF strip(str(motivo)) \in {<<>>, nan_txt, None_txt}
        THEN [revogada |-> row["REVOGADAS"], motivo_exibicao |-> MotivoNaoInformado,
              cor_borda |-> "#ffcccc"]
        ELSE [revogada |-> row["REVOGADAS"], motivo_exibicao |-> motivo,
              cor_borda |-> "#e6f3ff"]

\* the expander of category cat, when it is drawn: its "Total" line and its items
Expander(cat, dex, t, f) ==
    IF (f = cat \/ f = "Todos") /\ t[cat] > 0
    THEN LET filtradas == LinhasPreenchidas(dex, cat).rows
         IN  IF filtradas # <<>>
             THEN [total |-> Len(filtradas),
                   itens |-> IF cat = "REVOGADAS"
                             THEN [k \in 1..Len(filtradas) |-> ItemRevogada(filtradas[k])]
                             ELSE [k \in 1..Len(filtradas) |-> filtradas[k][cat]]]
             ELSE Indefinido
    ELSE Indefinido

\* variant: com_motivo counted over the whole table, not over the revoked rows
Estatisticas_tabela_inteira(dex, t, f) ==
    IF (f = "REVOGADAS" \/ f = "Todos") /\ t["REVOGADAS"] > 0
       /\ LinhasPreenchidas(dex, "REVOGADAS").rows # <<>>
    THEN LET total_revogadas == Len(LinhasPreenchidas(dex, "REVOGADAS").rows)
             com_motivo == count_filled(Coluna(dex, "MOTIVO DA REVOGAÇÃO"))
         IN  [total |-> total_revogadas, com_motivo |-> com_motivo,
              sem_motivo |-> total_revogadas - com_motivo]
    ELSE Indefinido

\* "Estatísticas rápidas", lines 339-352
Estatisticas(dex, t, f) ==
    IF (f = "REVOGADAS" \/ f = "Todos") /\ t["REVOGADAS"] > 0
       /\ LinhasPreenchidas(dex, "REVOGADAS").rows # <<>>
    THEN LET revogadas_filtradas == LinhasPreenchidas(dex, "REVOGADAS")
             total_revogadas == Len(revogadas_filtradas.rows)
             com_motivo == count_filled(Coluna(revogadas_filtradas, "MOTIVO DA REVOGAÇÃO"))
         IN  [total |-> total_revogadas, com_motivo |-> com_motivo,
              sem_motivo |-> total_revogadas - com_motivo]
    ELSE Indefinido

-----------------------------------------------------------------------------
(* Table and export, lines 354-404 *)

DfFiltrado(dex, f) == IF f = "Todos" THEN Indefinido ELSE LinhasPreenchidas(dex, f)

Tabela(dex, f) ==
    IF f = "Todos"
    THEN [df |-> dex, msg |-> {}]
    ELSE IF DfFiltrado(dex, f).rows # <<>>
         THEN [df |-> Projecao(DfFiltrado(dex, f), ColunasTabela(f, dex)), msg |-> {}]
         ELSE [df |-> Indefinido, msg |-> {"info: Nenhum registro encontrado com dados em"}]

DadosExportar(dex, f) ==
    IF f = "Todos" THEN dex
    ELSE IF DfFiltrado(dex, f) # Indefinido /\ DfFiltrado(dex, f).rows # <<>>
         THEN Projecao(DfFiltrado(dex, f), ColunasTabela(f, dex))
         ELSE Projecao(dex, ColunasTabela(f, dex))

MetricasDf(d, dex, f) ==
    [total_de_registros |-> Len(d.rows),
     categoria_filtrada |-> f,
     registros_no_filtro |-> Len(DadosExportar(dex, f).rows)]

-----------------------------------------------------------------------------
(* One pass of the script for the widget values (file, f): the value every *)
(* variable has when the pass ends, by st.stop() or at the last line.      *)

SemSecoes == [c \in Range(ChavesTotais) |-> Indefinido]

Interrompida(et, d, msgs, falt, disp) ==
    [etapa |-> et, df |-> d, mensagens |-> msgs, erro_colunas |-> falt,
     colunas_disponiveis |-> disp, totais |-> Indefinido, metricas |-> Indefinido,
     fig |-> <<>>, expanders |-> SemSecoes, estatisticas |-> Indefinido,
     df_filtrado |-> Indefinido, tabela |-> Indefinido,
     dados_exportar |-> Indefinido, metricas_df |-> Indefinido]

Completa(d, f) ==
    LET dex == DfExibicao(d)
        t == CalcTotais(d)
        g == Grafico(d, t, f)
        tb == Tabela(dex, f)
    IN  [etapa |-> "completa", df |-> d,
         mensagens |-> g.msg \cup tb.msg,
         erro_colunas |-> <<>>, colunas_disponiveis |-> <<>>,
         totais |-> t,
         metricas |-> MetricasPrincipais(d, t, f),
         fig |-> g.fig,
         expanders |-> [c \in Range(ChavesTotais) |-> Expander(c, dex, t, f)],
         estatisticas |-> Estatisticas(dex, t, f),
         df_filtrado |-> DfFiltrado(dex, f),
         tabela |-> tb.df,
         dados_exportar |-> DadosExportar(dex, f),
         metricas_df |-> MetricasDf(d, dex, f)]

SemArquivo == [sem_arquivo |-> TRUE]

\* variant: load_data swallows the exception without st.error
Passagem_erro_silencioso(file, f) ==
    IF file = SemArquivo
    THEN Interrompida("sem_arquivo", Indefinido,
                      {"info: Faça o upload de uma planilha"}, <<>>, <<>>)
    ELSE IF ~ file.legivel
         THEN Interrompida("erro_leitura", None, {}, <<>>, <<>>)
         ELSE IF ColunasFaltantes(file.tabela) # <<>>
              THEN Interrompida("colunas_faltantes", file.tabela,
                                {"error: Colunas faltantes no arquivo",
                                 "warning: Colunas encontradas no arquivo"},
                                ColunasFaltantes(file.tabela), file.tabela.columns)
              ELSE Completa(file.tabela, f)

Passagem(file, f) ==
    IF file = SemArquivo
    THEN Interrompida("sem_arquivo", Indefinido,
                      {"info: Faça o upload de uma planilha"}, <<>>, <<>>)
    ELSE LET d == load_data(file)
         IN  IF d = None
             THEN Interrompida("erro_leitura", None,
                               {"error: Erro ao ler o arquivo"}, <<>>, <<>>)
             ELSE IF ColunasFaltantes(d) # <<>>
                  THEN Interrompida("colunas_faltantes", d,
                                    {"error: Colunas faltantes no arquivo",
                                     "warning: Colunas encontradas no arquivo"},
                                    ColunasFaltantes(d), d.columns)
                  ELSE Completa(d, f)

-----------------------------------------------------------------------------
(* Inputs: the files a user can upload *)

\* texts a cell can hold besides a missing value
Textos ==
    {<<>>, <<" ">>, nan_txt, None_txt, <<" ", "n", "a", "n", "\t">>,
     <<"N", "o", "n", "e", " ">>, <<"x">>, <<" ", "x", " ">>, <<"N", "a", "N">>}

\* a filled text and a blank one that is neither missing nor the literal "nan"
TextosBasicos == {<<"x">>, <<" ", "n", "a", "n", "\t">>}

\* the sets of at most m elements of P
RECURSIVE Ate(_, _)
Ate(P, m) ==
    IF m = 0 THEN {{}}
    ELSE LET menores == Ate(P, m - 1)
         IN  menores \cup {T \cup {p} : T \in menores, p \in P}

\* the cells of a table of n rows over the columns cols
Celulas(cols, n) == (1..n) \X Range(cols)

\* the table of n rows over cols whose cells S hold the texts g, the others missing
TabelaDe(cols, n, S, g) ==
    [columns |-> cols,
     rows |-> [i \in 1..n |->
                 [c \in Range(cols) |-> IF <<i, c>> \in S THEN g[<<i, c>>] ELSE NaN]]]

\* tables of at most maxRows rows with at most maxCells cells not missing
Tabelas(cols, maxRows, maxCells, textos) ==
    UNION {UNION {{TabelaDe(cols, n, S, g) : g \in [S -> textos]} :
                     S \in Ate(Celulas(cols, n), maxCells)} :
              n \in 0..maxRows}

Arquivo(nome, t) == [nome |-> nome, legivel |-> TRUE, tabela |-> t]

Ilegiveis ==
    {[nome |-> nome, legivel |-> FALSE, tabela |-> Indefinido] :
        nome \in {"planilha.csv", "planilha.xlsx"}}

\* headers lacking at least one required column; one lacking ENCONTRADAS may
\* carry the name in lower case instead
CabecalhosInvalidos ==
    {SelectSeq(<<"encontradas">> \o colunas_necessarias, LAMBDA c : c \in T) :
        T \in {U \in SUBSET (Range(colunas_necessarias) \cup {"encontradas"}) :
                  /\ ~ (Range(colunas_necessarias) \subseteq U)
                  /\ ~ ({"encontradas", "ENCONTRADAS"} \subseteq U)}}

\* a header with a column the script does not know
ComObservacoes == colunas_necessarias \o <<"OBSERVAÇÕES">>

\* uploads of a session: unreadable files, tables lacking required columns,
\* tables with exactly the required columns, and tables with the extra
\* column filled in their first row
SessionFiles ==
    Ilegiveis
    \cup {Arquivo("planilha.xlsx", TabelaDe(cols, MaxSessionRows, {}, <<>>)) :
            cols \in CabecalhosInvalidos}
    \cup {Arquivo("planilha.csv", t) :
            t \in Tabelas(colunas_necessarias, MaxSessionRows, MaxSessionCells, {<<"x">>})}
    \cup {Arquivo("planilha.xlsx", t) :
            t \in {u \in Tabelas(ComObservacoes, MaxSessionRows, MaxSessionCells, {<<"x">>}) :
                      Len(u.rows) >= 1 /\ u.rows[1]["OBSERVAÇÕES"] # NaN}}

-----------------------------------------------------------------------------
(* State machine *)

\* the script runs to its end (or to st.stop()) with the widget values (file, f)
Executa(file, f) ==
    \E r \in {Passagem(file, f)} :
        /\ uploaded_file' = file
        \* a selectbox that was not drawn loses its value: index=0 next time
        /\ filtro' = IF r.etapa = "completa" THEN f ELSE OpcoesFiltro[1]
        /\ etapa' = r.etapa
        /\ df' = r.df
        /\ mensagens' = r.mensagens
        /\ erro_colunas' = r.erro_colunas
        /\ colunas_disponiveis' = r.colunas_disponiveis
        /\ totais' = r.totais
        /\ metricas' = r.metricas
        /\ fig' = r.fig
        /\ expanders' = r.expanders
        /\ estatisticas' = r.estatisticas
        /\ df_filtrado' = r.df_filtrado
        /\ tabela' = r.tabela
        /\ dados_exportar' = r.dados_exportar
        /\ metricas_df' = r.metricas_df
        /\ falhou' = (falhou \/ etapa \in {"erro_leitura", "colunas_faltantes"})

\* the state the pass for (file, f) leaves
Apos(file, f) ==
    \E r \in {Passagem(file, f)} :
        /\ uploaded_file = file
        /\ filtro = IF r.etapa = "completa" THEN f ELSE OpcoesFiltro[1]
        /\ etapa = r.etapa
        /\ df = r.df
        /\ mensagens = r.mensagens
        /\ erro_colunas = r.erro_colunas
        /\ colunas_disponiveis = r.colunas_disponiveis
        /\ totais = r.totais
        /\ metricas = r.metricas
        /\ fig = r.fig
        /\ expanders = r.expanders
        /\ estatisticas = r.estatisticas
        /\ df_filtrado = r.df_filtrado
        /\ tabela = r.tabela
        /\ dados_exportar = r.dados_exportar
        /\ metricas_df = r.metricas_df

\* the page opened, nothing uploaded yet: lines 19-21
Init == Apos(SemArquivo, OpcoesFiltro[1]) /\ falhou = FALSE

\* the user uploads (or replaces) the file
Upload == \E file \in SessionFiles : file # uploaded_file /\ Executa(file, filtro)

\* the user removes the uploaded file
RemoveFile == uploaded_file # SemArquivo /\ Executa(SemArquivo, filtro)

\* the user picks an option of the selectbox, which exists only once drawn
SelectFilter ==
    /\ etapa = "completa"
    /\ \E k \in 1..Len(OpcoesFiltro) :
          OpcoesFiltro[k] # filtro /\ Executa(uploaded_file, OpcoesFiltro[k])

Next == Upload \/ RemoveFile \/ SelectFilter

Spec == Init /\ [][Next]_vars

(* The pipeline on every table of the bounds: a file is uploaded to the    *)
(* fresh page, then the filters are walked through.                        *)

InitTabela(maxRows, maxCells, textos) ==
    \E n \in 0..maxRows :
        \E S \in Ate(Celulas(colunas_necessarias, n), maxCells) :
            \E g \in [S -> textos] :
                /\ Apos(Arquivo("planilha.csv", TabelaDe(colunas_necessarias, n, S, g)),
                        OpcoesFiltro[1])
                /\ falhou = FALSE

\* tables of several rows over the basic texts, one-row tables over every text
InitPipeline ==
    \/ InitTabela(MaxRows, MaxCells, TextosBasicos)
    \/ InitTabela(1, MaxCells, Textos)

SpecPipeline == InitPipeline /\ [][SelectFilter]_vars

-----------------------------------------------------------------------------
(* Vocabulary of the properties, stated on the raw uploaded table and      *)
(* independently of the script's own str/strip/fillna/replace chain.       *)

Categorias ==
    {"ENCONTRADAS", "NÃO ENCONTRADAS", "REVOGADAS", "ATUALIZADAS", "OUTRAS SITUAÇÕES"}

\* the explored cell values that are blank: missing, empty, only whitespace,
\* or "nan" / "None" with or without surrounding whitespace
CelulasEmBranco ==
    {NaN, <<>>, <<" ">>, <<"n", "a", "n">>, <<"N", "o", "n", "e">>,
     <<" ", "n", "a", "n", "\t">>, <<"N", "o", "n", "e", " ">>}

Preenchida(x) == x \notin CelulasEmBranco

\* the rows of d, by index and in order, whose cell in column c is filled
Indices(d, c) ==
    SelectSeq([i \in 1..Len(d.rows) |-> i], LAMBDA i : Preenchida(d.rows[i][c]))

Contagem(d, c) == Len(Indices(d, c))

\* what the normalizer is specified to do to one cell
Normalizada(x) == IF x = NaN \/ x = <<"n", "a", "n">> THEN <<>> ELSE x

NadaProduzido ==
    /\ totais = Indefinido
    /\ metricas = Indefinido
    /\ fig = <<>>
    /\ \A c \in Categorias : expanders[c] = Indefinido
    /\ estatisticas = Indefinido
    /\ df_filtrado = Indefinido
    /\ tabela = Indefinido
    /\ dados_exportar = Indefinido
    /\ metricas_df = Indefinido

TemColunas(t) == Range(colunas_necessarias) \subseteq Range(t.columns)

-----------------------------------------------------------------------------
(* C1: a loaded table lacking required columns gets the missing-columns    *)
(* error naming exactly the required columns it lacks (exact, case-        *)
(* sensitive match), and the pass stops there: no counts, chart, detail    *)
(* section, table or export.                                               *)
C1_ColunasFaltantesExatas ==
    (df # Indefinido /\ df # None /\ ~ TemColunas(df)) =>
        /\ etapa = "colunas_faltantes"
        /\ "error: Colunas faltantes no arquivo" \in mensagens
        /\ Range(erro_colunas) = Range(colunas_necessarias) \ Range(df.columns)
        /\ Len(erro_colunas) = Cardinality(Range(erro_colunas))
        /\ colunas_disponiveis = df.columns
        /\ NadaProduzido

C1_Witness ==
    /\ etapa = "colunas_faltantes"
    /\ "encontradas" \in Range(df.columns)
    /\ "REVOGADAS" \in Range(df.columns)
    /\ Len(erro_colunas) = 2
    /\ Len(df.rows) = 1

(* C2: under a specific category filter, df_filtrado (taken from the       *)
(* normalized table) holds exactly the rows whose cell of that category is *)
(* filled, in order, and has as many rows as totais[filtro] (counted on    *)
(* the raw table).                                                         *)
C2_FiltradoIgualContagem ==
    (etapa = "completa" /\ filtro # "Todos") =>
        LET idx == Indices(df, filtro)
        IN  /\ Len(df_filtrado.rows) = Len(idx)
            /\ \A k \in 1..Len(idx) :
                  df_filtrado.rows[k] =
                      [c \in Range(df.columns) |-> Normalizada(df.rows[idx[k]][c])]
            /\ Len(df_filtrado.rows) = totais[filtro]

C2_Witness ==
    /\ etapa = "completa"
    /\ filtro # "Todos"
    /\ Len(df.rows) = 2
    /\ df.rows[1][filtro] = <<" ", "n", "a", "n", "\t">>
    /\ Len(df_filtrado.rows) = 1

(* C3: the data sheet of the export is the displayed filtered dataset and  *)
(* the metrics sheet is {rows of the file, filter, rows of the filtered    *)
(* view}: all rows under Todos, the category's count otherwise, zero       *)
(* included.                                                               *)
C3_ExportaVisaoFiltrada ==
    etapa = "completa" =>
        /\ IF tabela # Indefinido THEN dados_exportar = tabela
           ELSE dados_exportar.rows = <<>>
        /\ metricas_df.total_de_registros = Len(df.rows)
        /\ metricas_df.categoria_filtrada = filtro
        /\ metricas_df.registros_no_filtro =
              IF filtro = "Todos" THEN Len(df.rows) ELSE Contagem(df, filtro)

(* C4: a cell is not filled exactly when it is blank; each of the five     *)
(* categories counts the rows whose cell is filled; MOTIVO DA REVOGAÇÃO    *)
(* has no count.                                                           *)
C4_ContagemPreenchidas ==
    etapa = "completa" =>
        /\ DOMAIN totais = Categorias
        /\ \A c \in Categorias :
              totais[c] = Cardinality({i \in 1..Len(df.rows) : Preenchida(df.rows[i][c])})

C4_Witness ==
    /\ etapa = "completa"
    /\ \E c1 \in Categorias, c2 \in Categorias :
          /\ totais[c1] = 1
          /\ totais[c2] = 0
          /\ df.rows[1][c2] = <<"N", "o", "n", "e", " ">>

(* C5: a category of count zero gets neither chart nor detail section:     *)
(* selected, the page shows the no-data message instead; under Todos it    *)
(* has no slice and no section; no chart at all when the relevant count    *)
(* is zero.                                                                *)
C5_CategoriaVaziaOmitida ==
    etapa = "completa" =>
        /\ (filtro # "Todos" /\ Contagem(df, filtro) = 0) =>
              /\ fig = <<>>
              /\ \A c \in Categorias : expanders[c] = Indefinido
              /\ "warning: Não há dados para exibir com os filtros atuais." \in mensagens
              /\ "info: Nenhum registro encontrado com dados em" \in mensagens
        /\ filtro = "Todos" =>
              \A c \in Categorias :
                  Contagem(df, c) = 0 =>
                      /\ \A k \in 1..Len(fig) : fig[k].Categoria # c
                      /\ expanders[c] = Indefinido
        /\ (filtro = "Todos" /\ \A c \in Categorias : Contagem(df, c) = 0) => fig = <<>>

C5_Witness ==
    /\ etapa = "completa"
    /\ filtro = "REVOGADAS"
    /\ totais["REVOGADAS"] = 0
    /\ totais["ENCONTRADAS"] = 1
    /\ df.rows[1]["REVOGADAS"] = <<" ">>
    /\ fig = <<>>

(* C6: with at least one revoked row, under REVOGADAS or Todos:            *)
(* com_motivo + sem_motivo is the number of revoked rows, com_motivo the   *)
(* number of them with a filled reason, sem_motivo >= 0 the number listed  *)
(* with the placeholder, every other listed row shows its own reason.      *)
C6_RevogadasComESemMotivo ==
    (etapa = "completa" /\ filtro \in {"REVOGADAS", "Todos"}
        /\ Contagem(df, "REVOGADAS") > 0) =>
        LET idx == Indices(df, "REVOGADAS")
            itens == expanders["REVOGADAS"].itens
            motivo(k) == df.rows[idx[k]]["MOTIVO DA REVOGAÇÃO"]
        IN  /\ estatisticas # Indefinido
            /\ expanders["REVOGADAS"] # Indefinido
            /\ expanders["REVOGADAS"].total = Len(idx)
            /\ estatisticas.total = Len(idx)
            /\ estatisticas.com_motivo + estatisticas.sem_motivo = Len(idx)
            /\ estatisticas.com_motivo =
                  Cardinality({k \in 1..Len(idx) : Preenchida(motivo(k))})
            /\ estatisticas.sem_motivo >= 0
            /\ Len(itens) = Len(idx)
            /\ estatisticas.sem_motivo =
                  Cardinality({k \in 1..Len(itens) :
                                  itens[k].motivo_exibicao = MotivoNaoInformado})
            /\ \A k \in 1..Len(idx) :
                  /\ itens[k].revogada = df.rows[idx[k]]["REVOGADAS"]
                  /\ itens[k].motivo_exibicao =
                        IF Preenchida(motivo(k)) THEN motivo(k) ELSE MotivoNaoInformado

C6_Witness ==
    /\ etapa = "completa"
    /\ filtro = "REVOGADAS"
    /\ estatisticas # Indefinido
    /\ estatisticas.sem_motivo = 1
    /\ df.rows[1]["MOTIVO DA REVOGAÇÃO"] = <<"N", "o", "n", "e">>

(* C7: "Total Filtrado" is, under Todos, the sum of the five counts (a row *)
(* filled in several categories counts once per category) and, under a     *)
(* category, that category's count.                                        *)
C7_TotalFiltrado ==
    etapa = "completa" =>
        metricas.total_filtrado =
            IF filtro = "Todos"
            THEN Cardinality({p \in (1..Len(df.rows)) \X Categorias :
                                 Preenchida(df.rows[p[1]][p[2]])})
            ELSE Contagem(df, filtro)

C7_Witness ==
    /\ etapa = "completa"
    /\ filtro = "Todos"
    /\ Len(df.rows) = 1
    /\ metricas.total_filtrado = 2

(* C9: under Todos with a nonzero total the chart has one slice per        *)
(* category of nonzero count, valued by that count; under a category of    *)
(* nonzero count it has the two slices (count, rows - count), both >= 0.   *)
C9_FatiasDoGrafico ==
    etapa = "completa" =>
        /\ (filtro = "Todos" /\ \E c \in Categorias : Contagem(df, c) > 0) =>
              /\ {fig[k].Categoria : k \in 1..Len(fig)} =
                    {c \in Categorias : Contagem(df, c) > 0}
              /\ Len(fig) = Cardinality({c \in Categorias : Contagem(df, c) > 0})
              /\ \A k \in 1..Len(fig) : fig[k].Quantidade = Contagem(df, fig[k].Categoria)
        /\ (filtro # "Todos" /\ Contagem(df, filtro) > 0) =>
              /\ Len(fig) = 2
              /\ fig[1] = [Categoria |-> filtro, Quantidade |-> Contagem(df, filtro)]
              /\ fig[2] = [Categoria |-> "Outros",
                           Quantidade |-> Len(df.rows) - Contagem(df, filtro)]
              /\ fig[2].Quantidade >= 0
              /\ fig[1].Quantidade + fig[2].Quantidade = Len(df.rows)

C9_Witness ==
    /\ etapa = "completa"
    /\ filtro # "Todos"
    /\ Len(fig) = 2
    /\ fig[1].Quantidade = 1
    /\ fig[2].Quantidade = 1

(* C8: a pass whose load fails shows the error and stops before           *)
(* validation, counts, page and export; a pass whose validation fails      *)
(* stops likewise; and the upload of a valid file is loaded, validated,    *)
(* counted and drawn in full whatever passes came before it.               *)
C8_ErrosDeUmaPassagem ==
    /\ [](uploaded_file # SemArquivo =>
            /\ ~ uploaded_file.legivel =>
                  /\ etapa = "erro_leitura"
                  /\ df = None
                  /\ mensagens = {"error: Erro ao ler o arquivo"}
                  /\ erro_colunas = <<>>
                  /\ colunas_disponiveis = <<>>
                  /\ NadaProduzido
            /\ (uploaded_file.legivel /\ ~ TemColunas(uploaded_file.tabela)) =>
                  /\ etapa = "colunas_faltantes"
                  /\ "error: Colunas faltantes no arquivo" \in mensagens
                  /\ NadaProduzido)
    /\ [][(/\ uploaded_file' # uploaded_file
           /\ uploaded_file' # SemArquivo
           /\ uploaded_file'.legivel
           /\ TemColunas(uploaded_file'.tabela)) =>
              /\ etapa' = "completa"
              /\ df' = uploaded_file'.tabela
              /\ totais' = [c \in Categorias |-> Contagem(uploaded_file'.tabela, c)]
              /\ metricas' # Indefinido
              /\ metricas'.registros = Len(uploaded_file'.tabela.rows)
              /\ dados_exportar' # Indefinido
              /\ metricas_df' # Indefinido
              /\ erro_colunas' = <<>>
              /\ mensagens' \cap {"error: Erro ao ler o arquivo",
                                  "error: Colunas faltantes no arquivo",
                                  "info: Faça o upload de uma planilha"} = {}
              /\ (Contagem(uploaded_file'.tabela, "ENCONTRADAS") > 0 /\ filtro' = "Todos")
                    => (fig' # <<>> /\ expanders'["ENCONTRADAS"] # Indefinido)]_vars

C8_Witness ==
    /\ falhou
    /\ etapa = "completa"
    /\ fig # <<>>
    /\ Len(dados_exportar.rows) = 1

(* C10: selecting another filter changes neither the loaded table, nor the *)
(* five counts, nor "Registros no Arquivo"; and what a pass leaves is the  *)
(* outcome of a fresh pass over the file and filter now selected, whatever *)
(* was uploaded or selected before.                                        *)
C10_SoArquivoEFiltroAtuais ==
    /\ [][(etapa = "completa" /\ etapa' = "completa" /\ uploaded_file' = uploaded_file) =>
              /\ df' = df
              /\ totais' = totais
              /\ metricas'.registros = metricas.registros]_vars
    /\ [](etapa = "completa" =>
            /\ df = uploaded_file.tabela
            /\ totais = [c \in Categorias |-> Contagem(uploaded_file.tabela, c)]
            /\ metricas.registros = Len(uploaded_file.tabela.rows)
            /\ metricas_df.categoria_filtrada = filtro)
    /\ [](etapa # "completa" => NadaProduzido)
    /\ []Apos(uploaded_file, filtro)

C10_Witness ==
    /\ falhou
    /\ etapa = "completa"
    /\ filtro = "ATUALIZADAS"
    /\ totais["ATUALIZADAS"] = 1

====
